---- MODULE Spec2Model ----
(***************************************************************************)
(* Model of script/race_swap_vs_update.py: main() builds two transactions  *)
(* from one sender (update = "A", low fee, nonce n; swap = "B", high fee,  *)
(* nonce n+1), sends both through a 2-worker thread pool, waits for both   *)
(* receipts through a second 2-worker pool and prints which landed first.  *)
(*                                                                         *)
(* Amounts in wei exceed 32 bits (10 gwei = 10^10), so a wei amount is a   *)
(* two-limb number in base 10^9: [hi, lo] stands for hi * 10^9 + lo.       *)
(***************************************************************************)
EXTENDS Integers, Naturals, Sequences, FiniteSets, TLC

\* ---------------------------------------------------------------- bounds
MaxBaseFeeGwei == 1
MaxNonce == 1
MaxGas == 0
MaxBlock == 1
MaxTxIndex == 1

\* ------------------------------------------------------- wei arithmetic
WeiBase == 10^9

Wei(h, l) == [hi |-> h, lo |-> l]

WeiAdd(a, b) ==
    LET s == a.lo + b.lo
    IN  Wei(a.hi + b.hi + (s \div WeiBase), s % WeiBase)

WeiTimes2(a) == WeiAdd(a, a)

WeiLess(a, b) == \/ a.hi < b.hi
                 \/ a.hi = b.hi /\ a.lo < b.lo

WeiLeq(a, b) == ~WeiLess(b, a)

\* gwei scaling by 10**3 instead of 10**9
gwei_Kilo(n) == Wei(0, n * 1000)

\* def gwei(n): return int(n) * 10**9
gwei(n) == Wei(n, 0)

\* ------------------------------------------------------------ constants
Calls == {"update", "swap"}

\* a pool one worker short of the two concurrent calls
max_workers_One == Cardinality(Calls) - 1

max_workers == 2
GasMargin == 20000
TipHigh == 10
TipLow == 1
LegacyHigh == 100
LegacyLow == 20

Unset == [unset |-> TRUE]

\* ----------------------------------------------- inputs from the chain
ChainIds == {412346}

WeiLows == {0, 1, 500000000, 999999999}

BaseFees == {Wei(h, l) : h \in 0..MaxBaseFeeGwei, l \in WeiLows}

\* w3.eth.get_block("latest"): a block with or without baseFeePerGas
LatestBlocks == {[number |-> 757]}
                \cup {[number |-> 757, baseFeePerGas |-> b] : b \in BaseFees}

PendingCounts == 0..MaxNonce

GasEstimates == {21000 + g : g \in 0..MaxGas}

Receipts == [blockNumber : 757..(757 + MaxBlock),
             transactionIndex : 0..MaxTxIndex,
             status : {0, 1}]

\* ------------------------------------------------------ pure functions
\* latest.get("baseFeePerGas") is not None
HasBaseFee(latest) == "baseFeePerGas" \in DOMAIN latest

\* FeeHigh with the base fee counted once instead of twice
FeeHigh_NoDouble(latest) ==
    IF HasBaseFee(latest)
    THEN [maxPriorityFeePerGas |-> gwei(TipHigh),
          maxFeePerGas |-> WeiAdd(latest.baseFeePerGas, gwei(TipHigh))]
    ELSE [gasPrice |-> gwei(LegacyHigh)]

FeeHigh(latest) ==
    IF HasBaseFee(latest)
    THEN [maxPriorityFeePerGas |-> gwei(TipHigh),
          maxFeePerGas |-> WeiAdd(WeiTimes2(latest.baseFeePerGas), gwei(TipHigh))]
    ELSE [gasPrice |-> gwei(LegacyHigh)]

\* FeeLow whose legacy fallback still fills a fee-market field
FeeLow_Mixed(latest) ==
    IF HasBaseFee(latest)
    THEN [maxPriorityFeePerGas |-> gwei(TipLow),
          maxFeePerGas |-> WeiAdd(WeiTimes2(latest.baseFeePerGas), gwei(TipLow))]
    ELSE [gasPrice |-> gwei(LegacyLow), maxPriorityFeePerGas |-> gwei(TipLow)]

FeeLow(latest) ==
    IF HasBaseFee(latest)
    THEN [maxPriorityFeePerGas |-> gwei(TipLow),
          maxFeePerGas |-> WeiAdd(WeiTimes2(latest.baseFeePerGas), gwei(TipLow))]
    ELSE [gasPrice |-> gwei(LegacyLow)]

UpdateNonce(n) == n

\* SwapNonce reusing the update's nonce
SwapNonce_Same(n) == n

SwapNonce(n) == n + 1

\* update_func.build_transaction({... "nonce": base_nonce, **fee_low})
BuildUpdateTx(n, cid, gas, fee) ==
    [call |-> "setBatch", nonce |-> UpdateNonce(n), chainId |-> cid,
     gas |-> gas + GasMargin] @@ fee

\* swap_func.build_transaction({... "nonce": base_nonce+1, **fee_high})
BuildSwapTx(n, cid, gas, fee) ==
    [call |-> "swapXtoY", nonce |-> SwapNonce(n), chainId |-> cid,
     gas |-> gas + GasMargin] @@ fee

\* Account.sign_transaction(tx, PRIVATE_KEY)
SignTransaction(tx) == [raw_transaction |-> tx, signed |-> TRUE]

\* the hash w3.eth.send_raw_transaction returns for a raw transaction
TxHash(signed) == [hash_of |-> signed.raw_transaction.call]

\* OrderingVerdict comparing the indices the other way round
OrderingVerdict_Swapped(rcpt_update, rcpt_swap) ==
    IF rcpt_swap.blockNumber = rcpt_update.blockNumber
    THEN IF rcpt_update.transactionIndex < rcpt_swap.transactionIndex
         THEN "SameBlockBFirst"
         ELSE "SameBlockAFirst"
    ELSE "DifferentBlocks"

\* OrderingVerdict with <= in place of <
OrderingVerdict_Leq(rcpt_update, rcpt_swap) ==
    IF rcpt_swap.blockNumber = rcpt_update.blockNumber
    THEN IF rcpt_swap.transactionIndex <= rcpt_update.transactionIndex
         THEN "SameBlockBFirst"
         ELSE "SameBlockAFirst"
    ELSE "DifferentBlocks"

\* OrderingVerdict that reports a failed swap as landing elsewhere
OrderingVerdict_Status(rcpt_update, rcpt_swap) ==
    IF rcpt_swap.blockNumber = rcpt_update.blockNumber /\ rcpt_swap.status = 1
    THEN IF rcpt_swap.transactionIndex < rcpt_update.transactionIndex
         THEN "SameBlockBFirst"
         ELSE "SameBlockAFirst"
    ELSE "DifferentBlocks"

\* the ordering printed at the end of main()
OrderingVerdict(rcpt_update, rcpt_swap) ==
    IF rcpt_swap.blockNumber = rcpt_update.blockNumber
    THEN IF rcpt_swap.transactionIndex < rcpt_update.transactionIndex
         THEN "SameBlockBFirst"
         ELSE "SameBlockAFirst"
    ELSE "DifferentBlocks"

\* ---------------------------------------------------------------- state
VARIABLES pc, error, chain_id, latest, fee_high, fee_low, base_nonce,
          gas_swap, gas_update, tx_update, tx_swap, signed_update,
          signed_swap, send, txhash, wait, fut, rcpt, verdict, calls

vars == <<pc, error, chain_id, latest, fee_high, fee_low, base_nonce,
          gas_swap, gas_update, tx_update, tx_swap, signed_update,
          signed_swap, send, txhash, wait, fut, rcpt, verdict, calls>>

prepVars == <<chain_id, latest, fee_high, fee_low, base_nonce,
              gas_swap, gas_update, tx_update, tx_swap, signed_update,
              signed_swap>>

poolVars == <<send, txhash, wait, fut, rcpt, verdict>>

\* the chain collaborator's calls, counted as they are entered
CallNames == {"chain_id", "getParameterKeys", "encodeParameters", "get_block",
              "get_transaction_count", "estimate_gas_swap",
              "estimate_gas_update", "send_update", "send_swap",
              "wait_update", "wait_swap"}

Count(name) == [calls EXCEPT ![name] = @ + 1]

Init ==
    /\ pc = "chain_id"
    /\ error = "none"
    /\ chain_id = 0
    /\ latest = Unset
    /\ fee_high = Unset
    /\ fee_low = Unset
    /\ base_nonce = -1
    /\ gas_swap = 0
    /\ gas_update = 0
    /\ tx_update = Unset
    /\ tx_swap = Unset
    /\ signed_update = Unset
    /\ signed_swap = Unset
    /\ send = [c \in Calls |-> "none"]
    /\ txhash = [c \in Calls |-> Unset]
    /\ wait = [c \in Calls |-> "none"]
    /\ fut = [c \in Calls |-> Unset]
    /\ rcpt = [c \in Calls |-> Unset]
    /\ verdict = "none"
    /\ calls = [n \in CallNames |-> 0]

\* an exception outside the pools reaches the top level at once
Raise(name) ==
    /\ pc' = "error"
    /\ error' = name

\* ------------------------------------------------- sequential preamble
\* chain_id = w3.eth.chain_id
GetChainId ==
    /\ pc = "chain_id"
    /\ calls' = Count("chain_id")
    /\ \/ /\ \E cid \in ChainIds : chain_id' = cid
          /\ pc' = "get_keys"
          /\ UNCHANGED error
       \/ /\ Raise("chain_id")
          /\ UNCHANGED chain_id
    /\ UNCHANGED <<latest, fee_high, fee_low, base_nonce, gas_swap, gas_update,
                   tx_update, tx_swap, signed_update, signed_swap>>
    /\ UNCHANGED poolVars

\* keys = amm_contract.functions.getParameterKeys(pair_id_bytes).call()
GetParameterKeys ==
    /\ pc = "get_keys"
    /\ calls' = Count("getParameterKeys")
    /\ \/ /\ pc' = "encode_values"
          /\ UNCHANGED error
       \/ Raise("getParameterKeys")
    /\ UNCHANGED prepVars
    /\ UNCHANGED poolVars

\* values = amm_contract.functions.encodeParameters(...).call()
EncodeParameters ==
    /\ pc = "encode_values"
    /\ calls' = Count("encodeParameters")
    /\ \/ /\ pc' = "get_block"
          /\ UNCHANGED error
       \/ Raise("encodeParameters")
    /\ UNCHANGED prepVars
    /\ UNCHANGED poolVars

\* latest = w3.eth.get_block("latest"); fee_high / fee_low from its base fee
FeeConfig ==
    /\ pc = "get_block"
    /\ calls' = Count("get_block")
    /\ \/ /\ \E b \in LatestBlocks :
                /\ latest' = b
                /\ fee_high' = FeeHigh(b)
                /\ fee_low' = FeeLow(b)
          /\ pc' = "get_nonce"
          /\ UNCHANGED error
       \/ /\ Raise("get_block")
          /\ UNCHANGED <<latest, fee_high, fee_low>>
    /\ UNCHANGED <<chain_id, base_nonce, gas_swap, gas_update, tx_update,
                   tx_swap, signed_update, signed_swap>>
    /\ UNCHANGED poolVars

\* base_nonce = w3.eth.get_transaction_count(sender, "pending")
GetTransactionCount ==
    /\ pc = "get_nonce"
    /\ calls' = Count("get_transaction_count")
    /\ \/ /\ \E n \in PendingCounts : base_nonce' = n
          /\ pc' = "estimate_swap"
          /\ UNCHANGED error
       \/ /\ Raise("get_transaction_count")
          /\ UNCHANGED base_nonce
    /\ UNCHANGED <<chain_id, latest, fee_high, fee_low, gas_swap, gas_update,
                   tx_update, tx_swap, signed_update, signed_swap>>
    /\ UNCHANGED poolVars

\* gas_swap = swap_func.estimate_gas({"from": sender})
EstimateGasSwap ==
    /\ pc = "estimate_swap"
    /\ calls' = Count("estimate_gas_swap")
    /\ \/ /\ \E g \in GasEstimates : gas_swap' = g
          /\ pc' = "estimate_update"
          /\ UNCHANGED error
       \/ /\ Raise("estimate_gas_swap")
          /\ UNCHANGED gas_swap
    /\ UNCHANGED <<chain_id, latest, fee_high, fee_low, base_nonce, gas_update,
                   tx_update, tx_swap, signed_update, signed_swap>>
    /\ UNCHANGED poolVars

\* EstimateGasUpdate swallowing a revert and going on with a default
EstimateGasUpdate_Swallow ==
    /\ pc = "estimate_update"
    /\ calls' = Count("estimate_gas_update")
    /\ \/ /\ \E g \in GasEstimates : gas_update' = g
          /\ UNCHANGED error
       \/ /\ error' = "estimate_gas_update"
          /\ UNCHANGED gas_update
    /\ pc' = "build_update"
    /\ UNCHANGED <<chain_id, latest, fee_high, fee_low, base_nonce, gas_swap,
                   tx_update, tx_swap, signed_update, signed_swap>>
    /\ UNCHANGED poolVars

\* gas_update = update_func.estimate_gas({"from": sender})
EstimateGasUpdate ==
    /\ pc = "estimate_update"
    /\ calls' = Count("estimate_gas_update")
    /\ \/ /\ \E g \in GasEstimates : gas_update' = g
          /\ pc' = "build_update"
          /\ UNCHANGED error
       \/ /\ Raise("estimate_gas_update")
          /\ UNCHANGED gas_update
    /\ UNCHANGED <<chain_id, latest, fee_high, fee_low, base_nonce, gas_swap,
                   tx_update, tx_swap, signed_update, signed_swap>>
    /\ UNCHANGED poolVars

\* tx_update = update_func.build_transaction({...})
BuildUpdate ==
    /\ pc = "build_update"
    /\ tx_update' = BuildUpdateTx(base_nonce, chain_id, gas_update, fee_low)
    /\ pc' = "build_swap"
    /\ UNCHANGED <<error, calls, chain_id, latest, fee_high, fee_low,
                   base_nonce, gas_swap, gas_update, tx_swap, signed_update,
                   signed_swap>>
    /\ UNCHANGED poolVars

\* tx_swap = swap_func.build_transaction({...})
BuildSwap ==
    /\ pc = "build_swap"
    /\ tx_swap' = BuildSwapTx(base_nonce, chain_id, gas_swap, fee_high)
    /\ pc' = "sign_swap"
    /\ UNCHANGED <<error, calls, chain_id, latest, fee_high, fee_low,
                   base_nonce, gas_swap, gas_update, tx_update, signed_update,
                   signed_swap>>
    /\ UNCHANGED poolVars

\* SignSwap handing the swap to a pool as soon as it is signed
SignSwap_SendsAtOnce ==
    /\ pc = "sign_swap"
    /\ signed_swap' = SignTransaction(tx_swap)
    /\ send' = [send EXCEPT !["swap"] = "queued"]
    /\ pc' = "sign_update"
    /\ UNCHANGED <<error, calls, chain_id, latest, fee_high, fee_low,
                   base_nonce, gas_swap, gas_update, tx_update, tx_swap,
                   signed_update>>
    /\ UNCHANGED <<txhash, wait, fut, rcpt, verdict>>

\* signed_swap = Account.sign_transaction(tx_swap, PRIVATE_KEY)
SignSwap ==
    /\ pc = "sign_swap"
    /\ signed_swap' = SignTransaction(tx_swap)
    /\ pc' = "sign_update"
    /\ UNCHANGED <<error, calls, chain_id, latest, fee_high, fee_low,
                   base_nonce, gas_swap, gas_update, tx_update, tx_swap,
                   signed_update>>
    /\ UNCHANGED poolVars

\* signed_update = Account.sign_transaction(tx_update, PRIVATE_KEY)
SignUpdate ==
    /\ pc = "sign_update"
    /\ signed_update' = SignTransaction(tx_update)
    /\ pc' = "submit_send_update"
    /\ UNCHANGED <<error, calls, chain_id, latest, fee_high, fee_low,
                   base_nonce, gas_swap, gas_update, tx_update, tx_swap,
                   signed_swap>>
    /\ UNCHANGED poolVars

\* ------------------------------------------------- thread pool workers
\* a work item is queued by pool.submit, dequeued (FIFO) by a free worker
\* thread, then its callable is entered and returns or raises
Busy(st) == {c \in Calls : st[c] \in {"taken", "running"}}

Finished(st) == \A c \in Calls : st[c] \in {"none", "returned", "raised"}

CanDequeue(st, c) ==
    /\ st[c] = "queued"
    /\ Cardinality(Busy(st)) < max_workers
    /\ (c = "swap" => st["update"] # "queued")

SendName(c) == IF c = "update" THEN "send_update" ELSE "send_swap"

WaitName(c) == IF c = "update" THEN "wait_update" ELSE "wait_swap"

sendFrame == <<pc, error, txhash, wait, fut, rcpt, verdict>>

waitFrame == <<pc, error, txhash, send, rcpt, verdict>>

SendDequeue(c) ==
    /\ CanDequeue(send, c)
    /\ send' = [send EXCEPT ![c] = "taken"]
    /\ UNCHANGED <<calls, sendFrame, prepVars>>

\* w3.eth.send_raw_transaction(signed.raw_transaction) is entered
SendEnter(c) ==
    /\ send[c] = "taken"
    /\ send' = [send EXCEPT ![c] = "running"]
    /\ calls' = Count(SendName(c))
    /\ UNCHANGED <<sendFrame, prepVars>>

SendReturn(c) ==
    /\ send[c] = "running"
    /\ send' = [send EXCEPT ![c] = "returned"]
    /\ UNCHANGED <<calls, sendFrame, prepVars>>

SendRaise(c) ==
    /\ send[c] = "running"
    /\ send' = [send EXCEPT ![c] = "raised"]
    /\ UNCHANGED <<calls, sendFrame, prepVars>>

\* a chain collaborator whose first-entered send_raw_transaction call
\* blocks until the other one has been entered too; both then succeed
DoubleSendReturn(c) ==
    /\ send[c] = "running"
    /\ \A d \in Calls : send[d] \in {"running", "returned", "raised"}
    /\ send' = [send EXCEPT ![c] = "returned"]
    /\ UNCHANGED <<calls, sendFrame, prepVars>>

WaitDequeue(c) ==
    /\ CanDequeue(wait, c)
    /\ wait' = [wait EXCEPT ![c] = "taken"]
    /\ UNCHANGED <<calls, fut, waitFrame, prepVars>>

\* w3.eth.wait_for_transaction_receipt(txhash) is entered
WaitEnter(c) ==
    /\ wait[c] = "taken"
    /\ wait' = [wait EXCEPT ![c] = "running"]
    /\ calls' = Count(WaitName(c))
    /\ UNCHANGED <<fut, waitFrame, prepVars>>

WaitReturn(c) ==
    /\ wait[c] = "running"
    /\ \E r \in Receipts : fut' = [fut EXCEPT ![c] = r]
    /\ wait' = [wait EXCEPT ![c] = "returned"]
    /\ UNCHANGED <<calls, waitFrame, prepVars>>

WaitRaise(c) ==
    /\ wait[c] = "running"
    /\ wait' = [wait EXCEPT ![c] = "raised"]
    /\ UNCHANGED <<calls, fut, waitFrame, prepVars>>

\* ------------------------------------------------- concurrent submit
\* SubmitSendUpdate followed at once by the wait for its result
SubmitSendUpdate_Serial ==
    /\ pc = "submit_send_update"
    /\ send' = [send EXCEPT !["update"] = "queued"]
    /\ pc' = "result_send_update"
    /\ UNCHANGED <<error, calls, txhash, wait, fut, rcpt, verdict, prepVars>>

\* fut_update = pool.submit(w3.eth.send_raw_transaction, ...)
SubmitSendUpdate ==
    /\ pc = "submit_send_update"
    /\ send' = [send EXCEPT !["update"] = "queued"]
    /\ pc' = "submit_send_swap"
    /\ UNCHANGED <<error, calls, txhash, wait, fut, rcpt, verdict, prepVars>>

\* fut_swap = pool.submit(w3.eth.send_raw_transaction, ...)
SubmitSendSwap ==
    /\ pc = "submit_send_swap"
    /\ send' = [send EXCEPT !["swap"] = "queued"]
    /\ pc' = "result_send_update"
    /\ UNCHANGED <<error, calls, txhash, wait, fut, rcpt, verdict, prepVars>>

\* ResultSendUpdate surfacing whichever submission failed first
ResultSendUpdate_FirstFailure ==
    /\ pc = "result_send_update"
    /\ \/ /\ send["update"] = "returned"
          /\ txhash' = [txhash EXCEPT !["update"] = TxHash(signed_update)]
          /\ pc' = "result_send_swap"
          /\ UNCHANGED error
       \/ /\ send["update"] = "raised"
          /\ error' = "send_update"
          /\ pc' = "exit_send_pool"
          /\ UNCHANGED txhash
       \/ /\ send["swap"] = "raised"
          /\ error' = "send_swap"
          /\ pc' = "exit_send_pool"
          /\ UNCHANGED txhash
    /\ UNCHANGED <<calls, send, wait, fut, rcpt, verdict, prepVars>>

\* txhash_update = fut_update.result().hex()
ResultSendUpdate ==
    /\ pc = "result_send_update"
    /\ \/ /\ send["update"] = "returned"
          /\ txhash' = [txhash EXCEPT !["update"] = TxHash(signed_update)]
          /\ pc' = "result_send_swap"
          /\ UNCHANGED error
       \/ /\ send["update"] = "raised"
          /\ error' = "send_update"
          /\ pc' = "exit_send_pool"
          /\ UNCHANGED txhash
    /\ UNCHANGED <<calls, send, wait, fut, rcpt, verdict, prepVars>>

\* txhash_swap = fut_swap.result().hex()
ResultSendSwap ==
    /\ pc = "result_send_swap"
    /\ \/ /\ send["swap"] = "returned"
          /\ txhash' = [txhash EXCEPT !["swap"] = TxHash(signed_swap)]
          /\ UNCHANGED error
       \/ /\ send["swap"] = "raised"
          /\ error' = "send_swap"
          /\ UNCHANGED txhash
    /\ pc' = "exit_send_pool"
    /\ UNCHANGED <<calls, send, wait, fut, rcpt, verdict, prepVars>>

\* ExitSendPool dropping the pending exception
ExitSendPool_Ignore ==
    /\ pc = "exit_send_pool"
    /\ Finished(send)
    /\ pc' = "submit_wait_update"
    /\ UNCHANGED <<error, calls, poolVars, prepVars>>

\* ExitSendPool not joining the workers (shutdown(wait=False))
ExitSendPool_NoJoin ==
    /\ pc = "exit_send_pool"
    /\ pc' = IF error = "none" THEN "submit_wait_update" ELSE "error"
    /\ UNCHANGED <<error, calls, poolVars, prepVars>>

\* leaving the with block: shutdown(wait=True) joins the workers, then the
\* pending exception, if any, goes on to the top level
ExitSendPool ==
    /\ pc = "exit_send_pool"
    /\ Finished(send)
    /\ pc' = IF error = "none" THEN "submit_wait_update" ELSE "error"
    /\ UNCHANGED <<error, calls, poolVars, prepVars>>

\* ------------------------------------------------ concurrent confirm
\* SubmitWaitUpdate followed at once by the wait for its result
SubmitWaitUpdate_Serial ==
    /\ pc = "submit_wait_update"
    /\ wait' = [wait EXCEPT !["update"] = "queued"]
    /\ pc' = "result_wait_update"
    /\ UNCHANGED <<error, calls, send, txhash, fut, rcpt, verdict, prepVars>>

\* r1 = pool.submit(w3.eth.wait_for_transaction_receipt, txhash_update)
SubmitWaitUpdate ==
    /\ pc = "submit_wait_update"
    /\ wait' = [wait EXCEPT !["update"] = "queued"]
    /\ pc' = "submit_wait_swap"
    /\ UNCHANGED <<error, calls, send, txhash, fut, rcpt, verdict, prepVars>>

\* SubmitWaitSwap that never hands the swap's wait to the pool
SubmitWaitSwap_Dropped ==
    /\ pc = "submit_wait_swap"
    /\ pc' = "result_wait_update"
    /\ UNCHANGED <<error, calls, send, txhash, wait, fut, rcpt, verdict,
                   prepVars>>

\* r2 = pool.submit(w3.eth.wait_for_transaction_receipt, txhash_swap)
SubmitWaitSwap ==
    /\ pc = "submit_wait_swap"
    /\ wait' = [wait EXCEPT !["swap"] = "queued"]
    /\ pc' = "result_wait_update"
    /\ UNCHANGED <<error, calls, send, txhash, fut, rcpt, verdict, prepVars>>

\* rcpt_update = r1.result()
ResultWaitUpdate ==
    /\ pc = "result_wait_update"
    /\ \/ /\ wait["update"] = "returned"
          /\ rcpt' = [rcpt EXCEPT !["update"] = fut["update"]]
          /\ pc' = "result_wait_swap"
          /\ UNCHANGED error
       \/ /\ wait["update"] = "raised"
          /\ error' = "wait_update"
          /\ pc' = "exit_wait_pool"
          /\ UNCHANGED rcpt
    /\ UNCHANGED <<calls, send, txhash, wait, fut, verdict, prepVars>>

\* ResultWaitSwap re-submitting the wait when it failed
ResultWaitSwap_Retry ==
    /\ pc = "result_wait_swap"
    /\ \/ /\ wait["swap"] = "returned"
          /\ rcpt' = [rcpt EXCEPT !["swap"] = fut["swap"]]
          /\ pc' = "exit_wait_pool"
          /\ UNCHANGED wait
       \/ /\ wait["swap"] = "raised"
          /\ wait' = [wait EXCEPT !["swap"] = "queued"]
          /\ UNCHANGED <<rcpt, pc>>
    /\ UNCHANGED <<error, calls, send, txhash, fut, verdict, prepVars>>

\* rcpt_swap = r2.result()
ResultWaitSwap ==
    /\ pc = "result_wait_swap"
    /\ \/ /\ wait["swap"] = "returned"
          /\ rcpt' = [rcpt EXCEPT !["swap"] = fut["swap"]]
          /\ UNCHANGED error
       \/ /\ wait["swap"] = "raised"
          /\ error' = "wait_swap"
          /\ UNCHANGED rcpt
    /\ pc' = "exit_wait_pool"
    /\ UNCHANGED <<calls, send, txhash, wait, fut, verdict, prepVars>>

\* ExitWaitPool dropping the pending exception
ExitWaitPool_Ignore ==
    /\ pc = "exit_wait_pool"
    /\ Finished(wait)
    /\ pc' = "verdict"
    /\ UNCHANGED <<error, calls, poolVars, prepVars>>

\* leaving the second with block: join the workers, then re-raise
ExitWaitPool ==
    /\ pc = "exit_wait_pool"
    /\ Finished(wait)
    /\ pc' = IF error = "none" THEN "verdict" ELSE "error"
    /\ UNCHANGED <<error, calls, poolVars, prepVars>>

\* ------------------------------------------------------------ verdict
\* the SAME block / DIFFERENT blocks report
Verdict ==
    /\ pc = "verdict"
    /\ verdict' = OrderingVerdict(rcpt["update"], rcpt["swap"])
    /\ pc' = "done"
    /\ UNCHANGED <<error, calls, send, txhash, wait, fut, rcpt, prepVars>>

\* ------------------------------------------------------------- claims
Entered(st, c) == st[c] \in {"running", "returned", "raised"}

Dispatched(st, c) == st[c] # "none"

AwaitingSend == pc \in {"result_send_update", "result_send_swap"}

AwaitingWait == pc \in {"result_wait_update", "result_wait_swap"}

FeeKeys == {"maxPriorityFeePerGas", "maxFeePerGas", "gasPrice"}

FeeOf(tx) == [k \in (DOMAIN tx) \cap FeeKeys |-> tx[k]]

SameBlock == rcpt["update"].blockNumber = rcpt["swap"].blockNumber

IdxA == rcpt["update"].transactionIndex

IdxB == rcpt["swap"].transactionIndex

\* C1 (as stated): whenever the coordinator awaits the result of a
\* submission, both send_raw_transaction calls have already been entered.
C1_BothEnteredBeforeAwait ==
    AwaitingSend => \A c \in Calls : Entered(send, c)

\* C1 (amended): whenever the coordinator awaits the result of a submission,
\* both submissions have been handed to the pool, and nothing has been
\* awaited (no hash collected, no error seen) while one was not yet handed
\* over.
C1_BothDispatchedBeforeAwait ==
    /\ AwaitingSend => \A c \in Calls : Dispatched(send, c)
    /\ (\E c \in Calls : ~Dispatched(send, c)) =>
           /\ \A c \in Calls : txhash[c] = Unset
           /\ error \notin {"send_update", "send_swap"}

C1_Witness ==
    /\ pc = "result_send_update"
    /\ send["update"] = "running"
    /\ send["swap"] = "running"

\* C2: no receipt wait is dispatched before both submissions returned a
\* hash; the coordinator awaits a receipt only after both waits were
\* dispatched; a queued wait for B can be taken by a worker while A's wait
\* is still in progress.
C2_ConfirmFanOut ==
    /\ (\E c \in Calls : Dispatched(wait, c)) =>
           \A c \in Calls : send[c] = "returned" /\ txhash[c] # Unset
    /\ (AwaitingWait \/ pc = "exit_wait_pool") =>
           \A c \in Calls : Dispatched(wait, c)
    /\ (wait["swap"] = "queued" /\ wait["update"] \in {"taken", "running"}) =>
           ENABLED WaitDequeue("swap")

C2_Witness ==
    /\ pc = "result_wait_update"
    /\ wait["swap"] = "returned"
    /\ wait["update"] = "running"

\* C3: once a submission has failed, no receipt wait is ever dispatched, no
\* verdict is computed, the run can only stop in the error state, and the
\* error it carries is the one of a failing submission.
C3_SubmitFailureAborts ==
    (\E c \in Calls : send[c] = "raised") =>
        /\ \A c \in Calls : wait[c] = "none" /\ fut[c] = Unset /\ rcpt[c] = Unset
        /\ calls["wait_update"] = 0 /\ calls["wait_swap"] = 0
        /\ verdict = "none"
        /\ pc \in {"submit_send_swap", "result_send_update",
                   "result_send_swap", "exit_send_pool", "error"}
        /\ pc \in {"exit_send_pool", "error"} =>
               error \in {SendName(c) : c \in {d \in Calls : send[d] = "raised"}}

C3_Witness ==
    /\ pc = "error"
    /\ send["update"] = "returned"
    /\ send["swap"] = "raised"
    /\ error = "send_swap"

\* C4: same block and A's index lower gives SameBlockAFirst; same block and
\* B's index lower gives SameBlockBFirst; different blocks give
\* DifferentBlocks whatever the indices.
C4_VerdictCases ==
    pc = "done" =>
        /\ (SameBlock /\ IdxA < IdxB) => verdict = "SameBlockAFirst"
        /\ (SameBlock /\ IdxB < IdxA) => verdict = "SameBlockBFirst"
        /\ ~SameBlock => verdict = "DifferentBlocks"

C4_Witness ==
    /\ pc = "done"
    /\ SameBlock
    /\ IdxB < IdxA
    /\ verdict = "SameBlockBFirst"

C6_EqualIndexAnomaly ==
    (pc = "done" /\ SameBlock /\ IdxA = IdxB) =>
        verdict \notin {"SameBlockAFirst", "SameBlockBFirst"}

\* C7: with a base fee b present, the high tier is (10 gwei, 2b + 10 gwei),
\* the low tier is (1 gwei, 2b + 1 gwei), and the high tip exceeds the low.
C7_FeeMarketTiers ==
    (fee_high # Unset /\ HasBaseFee(latest)) =>
        LET b == latest.baseFeePerGas
            d == 2 * b.lo
            carry == d \div 1000000000
            rest == d % 1000000000
        IN  /\ b.hi >= 0 /\ b.lo >= 0
            /\ fee_high.maxPriorityFeePerGas = [hi |-> 10, lo |-> 0]
            /\ fee_high.maxFeePerGas = [hi |-> 2 * b.hi + carry + 10, lo |-> rest]
            /\ fee_low.maxPriorityFeePerGas = [hi |-> 1, lo |-> 0]
            /\ fee_low.maxFeePerGas = [hi |-> 2 * b.hi + carry + 1, lo |-> rest]
            /\ WeiLess(fee_low.maxPriorityFeePerGas, fee_high.maxPriorityFeePerGas)

C7_Witness ==
    /\ pc = "get_nonce"
    /\ HasBaseFee(latest)
    /\ latest.baseFeePerGas = [hi |-> 1, lo |-> 999999999]
    /\ fee_high.maxFeePerGas = [hi |-> 13, lo |-> 999999998]

\* C8: both tiers, and both built transactions, carry exactly the fee
\* fields of the chain mode: priority fee and max fee (max >= priority) with
\* a base fee, only a fixed gas price (100 / 20 gwei) without one.
C8_OneRepresentation ==
    /\ fee_high # Unset =>
          IF HasBaseFee(latest)
          THEN /\ DOMAIN fee_high = {"maxPriorityFeePerGas", "maxFeePerGas"}
               /\ DOMAIN fee_low = {"maxPriorityFeePerGas", "maxFeePerGas"}
               /\ WeiLeq(fee_high.maxPriorityFeePerGas, fee_high.maxFeePerGas)
               /\ WeiLeq(fee_low.maxPriorityFeePerGas, fee_low.maxFeePerGas)
          ELSE /\ DOMAIN fee_high = {"gasPrice"}
               /\ DOMAIN fee_low = {"gasPrice"}
               /\ fee_high.gasPrice = [hi |-> 100, lo |-> 0]
               /\ fee_low.gasPrice = [hi |-> 20, lo |-> 0]
               /\ fee_high.gasPrice # fee_low.gasPrice
    /\ tx_update # Unset => DOMAIN FeeOf(tx_update) = DOMAIN fee_low
    /\ tx_swap # Unset => DOMAIN FeeOf(tx_swap) = DOMAIN fee_high
    /\ (tx_swap # Unset) =>
          (DOMAIN FeeOf(tx_swap) = DOMAIN FeeOf(tx_update))

C8_Witness ==
    /\ pc = "sign_swap"
    /\ ~HasBaseFee(latest)
    /\ "gasPrice" \in DOMAIN tx_swap
    /\ "gasPrice" \in DOMAIN tx_update

\* C9: the pending nonce is queried once, returning n; the update is built
\* with nonce n and the low tier, the swap with nonce n + 1 and the high
\* tier.
C9_NoncePair ==
    /\ calls["get_transaction_count"] <= 1
    /\ tx_update # Unset =>
          /\ calls["get_transaction_count"] = 1
          /\ base_nonce \in PendingCounts
          /\ tx_update.nonce = base_nonce
          /\ FeeOf(tx_update) = fee_low
    /\ tx_swap # Unset =>
          /\ tx_swap.nonce = base_nonce + 1
          /\ tx_swap.nonce = tx_update.nonce + 1
          /\ tx_swap.nonce # tx_update.nonce
          /\ FeeOf(tx_swap) = fee_high

C9_Witness ==
    /\ pc = "sign_swap"
    /\ base_nonce = 1
    /\ tx_update.nonce = 1
    /\ tx_swap.nonce = 2

\* C10: after a gas estimation reverts the run is in the error state, each
\* estimation was called at most once, and nothing was built, signed,
\* submitted, waited for or decided.
C10_EstimateRevertFatal ==
    /\ calls["estimate_gas_swap"] <= 1
    /\ calls["estimate_gas_update"] <= 1
    /\ error \in {"estimate_gas_swap", "estimate_gas_update"} =>
          /\ pc = "error"
          /\ calls[error] = 1
          /\ tx_update = Unset /\ tx_swap = Unset
          /\ signed_update = Unset /\ signed_swap = Unset
          /\ \A c \in Calls : send[c] = "none" /\ wait[c] = "none"
          /\ calls["send_update"] = 0 /\ calls["send_swap"] = 0
          /\ calls["wait_update"] = 0 /\ calls["wait_swap"] = 0
          /\ verdict = "none"

C10_Witness ==
    /\ pc = "error"
    /\ error = "estimate_gas_update"
    /\ gas_swap # 0

\* C11: once a receipt wait has failed, no verdict is ever computed (even if
\* the other receipt was obtained), neither wait is issued a second time and
\* the run can only stop in the error state with a failing wait's error.
C11_WaitFailureAborts ==
    /\ calls["wait_update"] <= 1
    /\ calls["wait_swap"] <= 1
    /\ (\E c \in Calls : wait[c] = "raised") =>
          /\ verdict = "none"
          /\ pc \in {"submit_wait_swap", "result_wait_update",
                     "result_wait_swap", "exit_wait_pool", "error"}
          /\ pc \in {"exit_wait_pool", "error"} =>
                 error \in {WaitName(c) : c \in {d \in Calls : wait[d] = "raised"}}

C11_Witness ==
    /\ pc = "error"
    /\ error = "wait_update"
    /\ wait["update"] = "raised"
    /\ wait["swap"] = "returned"
    /\ fut["swap"] # Unset
    /\ verdict = "none"

\* C12: the verdict of a finished run is the one any two receipts with the
\* same block numbers and transaction indices give, whatever their status.
C12_StatusIrrelevant ==
    pc = "done" =>
        \A sa \in {0, 1}, sb \in {0, 1} :
            OrderingVerdict([rcpt["update"] EXCEPT !.status = sa],
                            [rcpt["swap"] EXCEPT !.status = sb]) = verdict

C12_Witness ==
    /\ pc = "done"
    /\ SameBlock
    /\ rcpt["update"].status = 1
    /\ rcpt["swap"].status = 0
    /\ verdict = "SameBlockBFirst"

\* C13 (as stated): base fee 1 gwei gives a high-tier max fee of
\* 2,000,010,000 wei.
C13_MaxFeeAsStated ==
    (fee_high # Unset /\ HasBaseFee(latest)
        /\ latest.baseFeePerGas = [hi |-> 1, lo |-> 0]) =>
        fee_high.maxFeePerGas = [hi |-> 2, lo |-> 10000]

\* C13 (amended): base fee 1 gwei gives a high-tier max fee of
\* 12,000,000,000 wei (2 * 1 gwei + 10 gwei).
C13_MaxFeeTwelveGwei ==
    (fee_high # Unset /\ HasBaseFee(latest)
        /\ latest.baseFeePerGas = [hi |-> 1, lo |-> 0]) =>
        fee_high.maxFeePerGas = [hi |-> 12, lo |-> 0]

C13_Witness ==
    /\ pc = "estimate_swap"
    /\ HasBaseFee(latest)
    /\ latest.baseFeePerGas = [hi |-> 1, lo |-> 0]
    /\ fee_high.maxPriorityFeePerGas = [hi |-> 10, lo |-> 0]

RetriableCalls == {"estimate_gas_swap", "estimate_gas_update", "send_update",
                   "send_swap", "wait_update", "wait_swap"}

AtMostOnce == \A n \in RetriableCalls : calls[n] <= 1

AnyCallFailed ==
    \/ error # "none"
    \/ \E c \in Calls : send[c] = "raised" \/ wait[c] = "raised"

\* the coordinator starts a chain call: a direct call, or a call handed to
\* a pool
CoordInitiates ==
    \/ \E n \in CallNames \ {"send_update", "send_swap", "wait_update", "wait_swap"} :
           calls'[n] > calls[n]
    \/ \E c \in Calls : send[c] = "none" /\ send'[c] # "none"
    \/ \E c \in Calls : wait[c] = "none" /\ wait'[c] # "none"

\* C15 (as stated): every estimation, submission and receipt wait is called
\* at most once, and once any chain call has failed the coordinator starts
\* no further chain call.
C15_NoCallAfterAnyFailure ==
    [][AtMostOnce' /\ (AnyCallFailed => ~CoordInitiates)]_vars

\* C15 (amended): every estimation, submission and receipt wait is called
\* at most once, and once any chain call has failed the coordinator starts
\* no further chain call, except handing B's call of the same fan-out to the
\* pool when A's call failed in its worker before that hand-over.
C15_NoCallAfterSeenFailure ==
    [][/\ AtMostOnce'
       /\ (AnyCallFailed /\ CoordInitiates) =>
              /\ error = "none"
              /\ \/ pc = "submit_send_swap" /\ send["update"] = "raised"
                 \/ pc = "submit_wait_swap" /\ wait["update"] = "raised"]_vars

C15_Witness ==
    /\ pc = "error"
    /\ error = "send_swap"
    /\ send["update"] = "returned"
    /\ AtMostOnce
    /\ calls["send_swap"] = 1
    /\ calls["wait_update"] = 0

TxOf(c) == IF c = "update" THEN tx_update ELSE tx_swap

SignedOf(c) == IF c = "update" THEN signed_update ELSE signed_swap

\* the stage of a transaction: 1 Built, 2 Signed, 3 Submitted (accepted by
\* the chain), 4 Confirmed (receipt returned), 5 Resolved (verdict computed)
Rank(c) ==
    IF verdict # "none" THEN 5
    ELSE IF wait[c] = "returned" THEN 4
    ELSE IF send[c] = "returned" THEN 3
    ELSE IF SignedOf(c) # Unset THEN 2
    ELSE IF TxOf(c) # Unset THEN 1
    ELSE 0

NoEarlySubmit ==
    (\E c \in Calls : send[c] # "none") =>
        (signed_update # Unset /\ signed_swap # Unset)

VerdictAfterConfirm ==
    verdict # "none" =>
        \A c \in Calls : wait[c] = "returned" /\ rcpt[c] # Unset

\* C16: every step leaves each transaction's stage where it is or moves it
\* to the next stage; no submission is handed over before both transactions
\* are signed; a verdict exists only when both receipts were obtained.
C16_StagesForward ==
    [][/\ \A c \in Calls : Rank(c)' \in {Rank(c), Rank(c) + 1}
       /\ NoEarlySubmit'
       /\ VerdictAfterConfirm']_vars

C16_Witness ==
    /\ pc = "done"
    /\ \A c \in Calls : Rank(c) = 5
    /\ rcpt["update"].blockNumber # rcpt["swap"].blockNumber

SendErrors == {"send_update", "send_swap"}

\* C17: when a submission error reaches the top level, both submission
\* calls were entered once and ran to completion (none was cancelled or
\* left running), and a submission that succeeded has no receipt wait, no
\* second submission and no verdict.
C17_SurvivorLeftOutstanding ==
    (pc = "error" /\ error \in SendErrors) =>
        /\ \A c \in Calls : send[c] \in {"returned", "raised"}
        /\ \A c \in Calls : calls[SendName(c)] = 1
        /\ \A c \in Calls : wait[c] = "none" /\ calls[WaitName(c)] = 0
        /\ \A c \in Calls : rcpt[c] = Unset
        /\ verdict = "none"

C17_Witness ==
    /\ pc = "error"
    /\ error = "send_update"
    /\ send["update"] = "raised"
    /\ send["swap"] = "returned"
    /\ txhash["swap"] = Unset

\* C18: when A's submission failed the error carried out of the submit step
\* is A's, also when B's failed too; B's error is carried only when A's
\* submission returned.
C18_UpdateErrorWins ==
    /\ (pc \in {"exit_send_pool", "error"} /\ send["update"] = "raised") =>
           error = "send_update"
    /\ error = "send_swap" =>
           (send["update"] = "returned" /\ send["swap"] = "raised")
    /\ error = "send_update" => send["update"] = "raised"

C18_Witness ==
    /\ pc = "error"
    /\ send["update"] = "raised"
    /\ send["swap"] = "raised"
    /\ error = "send_update"

Next ==
    \/ GetChainId
    \/ GetParameterKeys
    \/ EncodeParameters
    \/ FeeConfig
    \/ GetTransactionCount
    \/ EstimateGasSwap
    \/ EstimateGasUpdate
    \/ BuildUpdate
    \/ BuildSwap
    \/ SignSwap
    \/ SignUpdate
    \/ SubmitSendUpdate
    \/ SubmitSendSwap
    \/ \E c \in Calls : SendDequeue(c)
    \/ \E c \in Calls : SendEnter(c)
    \/ \E c \in Calls : SendReturn(c)
    \/ \E c \in Calls : SendRaise(c)
    \/ ResultSendUpdate
    \/ ResultSendSwap
    \/ ExitSendPool
    \/ SubmitWaitUpdate
    \/ SubmitWaitSwap
    \/ \E c \in Calls : WaitDequeue(c)
    \/ \E c \in Calls : WaitEnter(c)
    \/ \E c \in Calls : WaitReturn(c)
    \/ \E c \in Calls : WaitRaise(c)
    \/ ResultWaitUpdate
    \/ ResultWaitSwap
    \/ ExitWaitPool
    \/ Verdict

Spec == Init /\ [][Next]_vars

\* main() run against the blocking collaborator for the two submissions
NextDouble ==
    \/ GetChainId
    \/ GetParameterKeys
    \/ EncodeParameters
    \/ FeeConfig
    \/ GetTransactionCount
    \/ EstimateGasSwap
    \/ EstimateGasUpdate
    \/ BuildUpdate
    \/ BuildSwap
    \/ SignSwap
    \/ SignUpdate
    \/ SubmitSendUpdate
    \/ SubmitSendSwap
    \/ \E c \in Calls : SendDequeue(c)
    \/ \E c \in Calls : SendEnter(c)
    \/ \E c \in Calls : DoubleSendReturn(c)
    \/ ResultSendUpdate
    \/ ResultSendSwap
    \/ ExitSendPool
    \/ SubmitWaitUpdate
    \/ SubmitWaitSwap
    \/ \E c \in Calls : WaitDequeue(c)
    \/ \E c \in Calls : WaitEnter(c)
    \/ \E c \in Calls : WaitReturn(c)
    \/ \E c \in Calls : WaitRaise(c)
    \/ ResultWaitUpdate
    \/ ResultWaitSwap
    \/ ExitWaitPool
    \/ Verdict

SpecDouble == Init /\ [][NextDouble]_vars

SendPhase == {"submit_send_update", "submit_send_swap", "result_send_update",
              "result_send_swap", "exit_send_pool"}

\* C14: against the blocking collaborator the submit step never gets stuck:
\* in every state of the step some step is possible, a call returns only
\* once both were entered, no call fails, and the step is left with both
\* transaction hashes collected.
C14_DoubleNoDeadlock ==
    /\ pc \in SendPhase => ENABLED NextDouble
    /\ \A c \in Calls : send[c] # "raised"
    /\ (\E c \in Calls : send[c] = "returned") =>
           \A d \in Calls : Entered(send, d)
    /\ (pc = "exit_send_pool" \/ (\E c \in Calls : Dispatched(wait, c))) =>
           /\ error \notin {"send_update", "send_swap"}
           /\ \A c \in Calls : send[c] = "returned" /\ txhash[c] # Unset

C14_Witness ==
    /\ pc = "submit_wait_update"
    /\ \A c \in Calls : txhash[c] # Unset /\ calls[SendName(c)] = 1
    /\ error = "none"

\* main() run against a chain whose calls all return successfully
NextLive ==
    \/ GetChainId /\ error' = "none"
    \/ GetParameterKeys /\ error' = "none"
    \/ EncodeParameters /\ error' = "none"
    \/ FeeConfig /\ error' = "none"
    \/ GetTransactionCount /\ error' = "none"
    \/ EstimateGasSwap /\ error' = "none"
    \/ EstimateGasUpdate /\ error' = "none"
    \/ BuildUpdate
    \/ BuildSwap
    \/ SignSwap
    \/ SignUpdate
    \/ SubmitSendUpdate
    \/ SubmitSendSwap
    \/ \E c \in Calls : SendDequeue(c)
    \/ \E c \in Calls : SendEnter(c)
    \/ \E c \in Calls : SendReturn(c)
    \/ ResultSendUpdate
    \/ ResultSendSwap
    \/ ExitSendPool
    \/ SubmitWaitUpdate
    \/ SubmitWaitSwap
    \/ \E c \in Calls : WaitDequeue(c)
    \/ \E c \in Calls : WaitEnter(c)
    \/ \E c \in Calls : WaitReturn(c)
    \/ ResultWaitUpdate
    \/ ResultWaitSwap
    \/ ExitWaitPool
    \/ Verdict

\* the coordinator and the pool workers keep running while they can
SpecLive == Init /\ [][NextLive]_vars /\ WF_vars(NextLive)

Verdicts == {"SameBlockAFirst", "SameBlockBFirst", "DifferentBlocks"}

\* C19: when no chain call fails, every fair run ends resolved, with one
\* verdict computed from both receipts.
C19_EventuallyResolved ==
    <>(/\ pc = "done"
       /\ verdict \in Verdicts
       /\ error = "none"
       /\ \A c \in Calls : rcpt[c] # Unset)

C19_Witness ==
    /\ pc = "done"
    /\ verdict \in Verdicts
    /\ \A n \in CallNames : calls[n] = 1
====
